---- MODULE Spec2Model ----
(***************************************************************************)
(* rustypaste: the paste classifier and the paste writer of src/paste.rs.  *)
(*                                                                         *)
(* Strings (file names, paths, extensions, URL text) are sequences of      *)
(* one-character strings, <<"a", ".", "b">> for "a.b"; paste data is a     *)
(* sequence of byte values.  An Option is a sequence of length 0 (None)    *)
(* or 1 (Some).  The file system is a map from the canonical path of each  *)
(* regular file (a sequence of component names below "/") to its bytes;    *)
(* the process runs with "/" as its working directory, so the relative     *)
(* upload path "u" is the directory /u.                                    *)
(***************************************************************************)
EXTENDS Naturals, Sequences, FiniteSets

VARIABLES fs, last, calls

vars == <<fs, last, calls>>

-----------------------------------------------------------------------------
(* Bounds of the checked instance.                                         *)

MaxNameLen == 3
MaxGenLen == 2
MaxUrlLen == 3
MaxCalls == 2

-----------------------------------------------------------------------------
(* Strings and options.                                                    *)

None == <<>>
Some(x) == <<x>>

STDIN == <<"s", "t", "d", "i", "n">>
FILE == <<"f", "i", "l", "e">>
URL == <<"u", "r", "l">>
BMP == <<"b", "m", "p">>
BIN == <<"b", "i", "n">>
DOT == <<".">>
DOTDOT == <<".", ".">>
SLASH == <<"/">>
DASH == <<"-">>

RECURSIVE SeqsUpTo(_, _)
SeqsUpTo(A, n) ==
    IF n = 0 THEN {<<>>}
    ELSE LET shorter == SeqsUpTo(A, n - 1)
         IN  shorter \cup {Append(s, c) : s \in shorter, c \in A}

Contains(s, c) == \E i \in 1..Len(s) : s[i] = c

FirstIndexOf(s, c) ==
    IF Contains(s, c)
    THEN CHOOSE i \in 1..Len(s) : s[i] = c /\ \A j \in 1..(i - 1) : s[j] # c
    ELSE 0

LastIndexOf(s, c) ==
    IF Contains(s, c)
    THEN CHOOSE i \in 1..Len(s) : s[i] = c /\ \A j \in (i + 1)..Len(s) : s[j] # c
    ELSE 0

EndsWith(s, t) ==
    /\ Len(t) <= Len(s)
    /\ SubSeq(s, Len(s) - Len(t) + 1, Len(s)) = t

\* The pieces of p between its "/" separators, empty pieces included.
RECURSIVE Pieces(_)
Pieces(p) ==
    LET i == FirstIndexOf(p, "/")
    IN  IF i = 0 THEN <<p>>
        ELSE <<SubSeq(p, 1, i - 1)>> \o Pieces(SubSeq(p, i + 1, Len(p)))

-----------------------------------------------------------------------------
(* std::path on Unix, as used by store_file and store_url.                 *)

has_root(p) == p # <<>> /\ p[1] = "/"

\* Path::components without the root: empty pieces are dropped, "." is
\* dropped except as the first piece of a relative path.
RECURSIVE KeepFrom(_, _, _)
KeepFrom(ps, i, rooted) ==
    IF i > Len(ps) THEN <<>>
    ELSE IF ps[i] = <<>> \/ (ps[i] = DOT /\ (i > 1 \/ rooted))
         THEN KeepFrom(ps, i + 1, rooted)
         ELSE <<ps[i]>> \o KeepFrom(ps, i + 1, rooted)

components(p) == KeepFrom(Pieces(p), 1, has_root(p))

\* Path::file_name: the last component when it is a normal one.
file_name(p) ==
    LET cs == components(p)
    IN  IF cs = <<>> THEN None
        ELSE LET c == cs[Len(cs)]
             IN  IF c = DOT \/ c = DOTDOT THEN None ELSE Some(c)

\* rsplit_file_at_dot: <<before, after>>, each an Option.
rsplit_file_at_dot(f) ==
    LET i == LastIndexOf(f, ".")
    IN  IF f = DOTDOT THEN <<Some(f), None>>
        ELSE IF i = 0 THEN <<None, Some(f)>>
        ELSE IF i = 1 THEN <<Some(f), None>>
        ELSE <<Some(SubSeq(f, 1, i - 1)), Some(SubSeq(f, i + 1, Len(f)))>>

\* Path::extension: before.and(after)
extension(p) ==
    LET fn == file_name(p)
    IN  IF fn = None THEN None
        ELSE LET ba == rsplit_file_at_dot(fn[1])
             IN  IF ba[1] = None THEN None ELSE ba[2]

\* Path::file_stem: before.or(after)
file_stem(p) ==
    LET fn == file_name(p)
    IN  IF fn = None THEN None
        ELSE LET ba == rsplit_file_at_dot(fn[1])
             IN  IF ba[1] # None THEN ba[1] ELSE ba[2]

\* PathBuf::push
push(p, q) ==
    IF has_root(q) THEN q
    ELSE IF p # <<>> /\ p[Len(p)] # "/" THEN p \o SLASH \o q
    ELSE p \o q

\* Path::join
join(p, q) == push(p, q)

\* The path without the separators and "." pieces that follow its last
\* component (Components::as_path after trim_right).
RECURSIVE trim_right(_)
trim_right(p) ==
    LET n == Len(p)
    IN  IF n <= 1 THEN p
        ELSE IF p[n] = "/" THEN trim_right(SubSeq(p, 1, n - 1))
        ELSE IF p[n] = "." /\ p[n - 1] = "/"
             THEN IF n = 2 THEN SLASH ELSE trim_right(SubSeq(p, 1, n - 2))
        ELSE p

\* PathBuf::pop: truncate to the parent, when the path has one.
pop(p) ==
    LET cs == components(p)
        t  == trim_right(p)
        i  == LastIndexOf(t, "/")
    IN  IF cs = <<>> THEN p
        ELSE IF i = 0 THEN <<>>
        ELSE IF i = 1 THEN SLASH
        ELSE trim_right(SubSeq(t, 1, i - 1))

\* PathBuf::set_file_name
set_file_name(p, f) ==
    push(IF file_name(p) # None THEN pop(p) ELSE p, f)

\* PathBuf::set_extension: no change without a file name; otherwise the
\* buffer is cut right after the file stem and "." + e appended when e is
\* not empty.
set_extension(p, e) ==
    LET fn == file_name(p)
    IN  IF fn = None THEN p
        ELSE LET t    == trim_right(p)
                 stem == file_stem(p)[1]
                 cut  == SubSeq(t, 1, Len(t) - Len(fn[1])) \o stem
             IN  IF e = <<>> THEN cut ELSE cut \o DOT \o e

-----------------------------------------------------------------------------
(* The file system under the upload directory.                             *)

\* config.server.upload_path, and the component it names below "/".
upload_path == <<"u">>

\* The directories that exist: "/", the upload directory and its "url"
\* subdirectory.  Everything else that exists is a regular file of fs.
Dirs == {<<>>, <<upload_path>>, <<upload_path, URL>>}

\* The directory reached by resolving the pieces ps[i..n] from directory
\* cur, or None when a piece names something that is not a directory.
RECURSIVE Walk(_, _, _, _)
Walk(ps, i, n, cur) ==
    IF i > n THEN Some(cur)
    ELSE IF ps[i] = <<>> \/ ps[i] = DOT THEN Walk(ps, i + 1, n, cur)
    ELSE IF ps[i] = DOTDOT
         THEN Walk(ps, i + 1, n,
                   IF cur = <<>> THEN cur ELSE SubSeq(cur, 1, Len(cur) - 1))
    ELSE IF Append(cur, ps[i]) \in Dirs
         THEN Walk(ps, i + 1, n, Append(cur, ps[i]))
    ELSE None

\* The canonical path of the regular file that opening p for writing with
\* create and truncate would open, or None when the open fails: an empty
\* path, a path that ends in a separator, "." or "..", a parent that is
\* not a directory, or a path that names a directory.
create_target(p) ==
    LET ps == Pieces(p)
        n  == Len(ps)
    IN  IF p = <<>> \/ ps[n] = <<>> \/ ps[n] = DOT \/ ps[n] = DOTDOT THEN None
        ELSE LET d == Walk(ps, 1, n - 1, <<>>)
             IN  IF d = None THEN None
                 ELSE IF Append(d[1], ps[n]) \in Dirs THEN None
                 ELSE Some(Append(d[1], ps[n]))

\* File::create + write_all, fs::write: the file holds exactly the bytes.
write_file(files, t, bytes) ==
    [q \in (DOMAIN files) \cup {t} |-> IF q = t THEN bytes ELSE files[q]]

\* The files that differ between two file systems.
Changed(before, after) ==
    {q \in (DOMAIN before) \cup (DOMAIN after) :
        \/ q \notin DOMAIN before
        \/ q \notin DOMAIN after
        \/ before[q] # after[q]}

-----------------------------------------------------------------------------
(* Content sniffing and URL parsing, on the bytes the model uses.          *)

\* infer::get(..).map(|t| t.extension()): of the matchers only the BMP one
\* ("BM", at least two bytes) can match the bytes used here.
infer_get(data) ==
    IF Len(data) > 1 /\ data[1] = 66 /\ data[2] = 77 THEN Some(BMP) ELSE None

\* str::from_utf8: every byte used is either ASCII or 0xFF, which is never
\* part of valid UTF-8.
utf8_valid(data) == \A i \in 1..Len(data) : data[i] < 128

Chr(b) ==
    CASE b = 119 -> "w" [] b = 87 -> "W" [] b = 115 -> "s" [] b = 58 -> ":"
      [] b = 47 -> "/" [] b = 46 -> "." [] OTHER -> "?"

Ord(c) ==
    CASE c = "w" -> 119 [] c = "W" -> 87 [] c = "s" -> 115 [] c = ":" -> 58
      [] c = "/" -> 47 [] c = "." -> 46 [] OTHER -> 63

from_utf8(data) == [i \in 1..Len(data) |-> Chr(data[i])]
as_bytes(text) == [i \in 1..Len(text) |-> Ord(text[i])]

is_alpha(c) == c \in {"w", "W", "s"}
is_scheme_char(c) == is_alpha(c) \/ c = "."
to_lower(text) == [i \in 1..Len(text) |-> IF text[i] = "W" THEN "w" ELSE text[i]]

\* The special schemes that the letters used can spell.
is_special(scheme) == scheme \in {<<"w", "s">>, <<"w", "s", "s">>}

RECURSIVE skip_slashes(_)
skip_slashes(r) ==
    IF r # <<>> /\ r[1] = "/" THEN skip_slashes(Tail(r)) ELSE r

\* Parser::after_double_slash without userinfo: host, optional port, path.
\* Without digits a port is either empty (and dropped) or invalid.
url_authority(scheme, r, special) ==
    LET stops   == {i \in 1..Len(r) : r[i] \in {"/", ":"}}
        hostEnd == IF stops = {} THEN Len(r) + 1
                   ELSE CHOOSE i \in stops : \A j \in stops : i <= j
        host    == SubSeq(r, 1, hostEnd - 1)
        after   == SubSeq(r, hostEnd, Len(r))
        hasPort == after # <<>> /\ after[1] = ":"
        path    == IF hasPort THEN Tail(after) ELSE after
    IN  IF special /\ host = <<>> THEN None
        ELSE IF hasPort /\ path # <<>> /\ path[1] # "/" THEN None
        ELSE Some(scheme \o <<":", "/", "/">>
                    \o (IF special THEN to_lower(host) ELSE host)
                    \o (IF special /\ path = <<>> THEN SLASH ELSE path))

\* Url::parse(text) followed by Url::to_string: the serialization of the
\* parsed URL, or None when parsing fails.
url_parse(text) ==
    LET i == FirstIndexOf(text, ":")
    IN  IF \/ i < 2
           \/ ~is_alpha(text[1])
           \/ \E j \in 2..(i - 1) : ~is_scheme_char(text[j])
        THEN None
        ELSE LET scheme == to_lower(SubSeq(text, 1, i - 1))
                 rest   == SubSeq(text, i + 1, Len(text))
             IN  IF is_special(scheme)
                 THEN url_authority(scheme, skip_slashes(rest), TRUE)
                 ELSE IF Len(rest) >= 2 /\ rest[1] = "/" /\ rest[2] = "/"
                 THEN url_authority(scheme, SubSeq(rest, 3, Len(rest)), FALSE)
                 ELSE Some(scheme \o <<":">> \o rest)

-----------------------------------------------------------------------------
(* Inputs of the requests.                                                 *)

\* Requested file names: every string of at most MaxNameLen characters
\* over a letter, the dot, the separator and the dash.
NameChars == {"a", ".", "/", "-"}
Names == SeqsUpTo(NameChars, MaxNameLen)

\* What config.paste.random_url.generate() may return: None (disabled), or
\* any string of at most MaxGenLen characters.
GenChars == {"x", ".", "/", "-"}
GenOutcomes == {None} \cup {Some(g) : g \in SeqsUpTo(GenChars, MaxGenLen)}

\* config.paste.default_extension: "bin", the empty string, "tar.gz"-like.
DefaultExtensions == {BIN, <<>>, <<"t", ".", "z">>}

\* File bytes: "xy" (no known type) and "BMx" (sniffed as a bitmap).
FileData == {<<120, 121>>, <<66, 77, 120>>}

\* URL paste bytes: every string of at most MaxUrlLen bytes over w, W, ':',
\* '/' and the invalid byte 0xFF, and some longer ones: "ws://w/",
\* "ws://W", "ws:w", "w://w:/w" and "w.w".
UrlBytes == {119, 87, 58, 47, 255}
UrlExamples ==
    { <<119, 115, 58, 47, 47, 119, 47>>,
      <<119, 115, 58, 47, 47, 87>>,
      <<119, 115, 58, 119>>,
      <<119, 58, 47, 47, 119, 58, 47, 119>>,
      <<119, 46, 119>> }
UrlData == SeqsUpTo(UrlBytes, MaxUrlLen) \cup UrlExamples

\* The form field names a content disposition may carry.
FormFields == {"file", "url", "text"}

-----------------------------------------------------------------------------
(* PasteType::try_from                                                     *)

has_form_field(content_disposition, name) == name \in content_disposition


\* A classifier that looks for the "url" field first.
try_from_url_first(content_disposition) ==
    IF has_form_field(content_disposition, "url") THEN "Url"
    ELSE IF has_form_field(content_disposition, "file") THEN "File"
    ELSE "Err"

try_from(content_disposition) ==
    IF has_form_field(content_disposition, "file") THEN "File"
    ELSE IF has_form_field(content_disposition, "url") THEN "Url"
    ELSE "Err"

-----------------------------------------------------------------------------
(* Paste::store_file                                                       *)


\* A match without the arm for "-".
base_file_name_keep_dash(requested) ==
    LET fn == file_name(requested)
    IN  IF fn # None THEN fn[1] ELSE FILE

\* The match on PathBuf::from(file_name).file_name().
base_file_name(requested) ==
    LET fn == file_name(requested)
    IN  IF fn = Some(DASH) THEN STDIN
        ELSE IF fn # None THEN fn[1]
        ELSE FILE


\* A store_file whose extensionless branch never sniffs the content.
resolved_path_no_sniff(requested, data, default_extension, gen) ==
    LET path == join(upload_path, base_file_name(requested))
        ext  == extension(path)
    IN  IF ext # None
        THEN IF gen # None
             THEN set_extension(set_file_name(path, gen[1]), ext[1])
             ELSE path
        ELSE set_extension(IF gen # None THEN set_file_name(path, gen[1])
                           ELSE path, default_extension)

\* A store_file that applies the default extension to every name the
\* generator did not replace.
resolved_path_default_always(requested, data, default_extension, gen) ==
    LET path == join(upload_path, base_file_name(requested))
        ext  == extension(path)
    IN  IF gen # None
        THEN set_extension(set_file_name(path, gen[1]),
                           IF ext # None THEN ext[1] ELSE default_extension)
        ELSE set_extension(path, default_extension)

\* The path that store_file creates: gen is the generator's outcome.
resolved_path(requested, data, default_extension, gen) ==
    LET path == join(upload_path, base_file_name(requested))
        ext  == extension(path)
    IN  IF ext # None
        THEN IF gen # None
             THEN set_extension(set_file_name(path, gen[1]), ext[1])
             ELSE path
        ELSE LET named   == IF gen # None THEN set_file_name(path, gen[1])
                            ELSE path
                 sniffed == infer_get(data)
             IN  set_extension(named, IF sniffed # None THEN sniffed[1]
                                      ELSE default_extension)

\* path.file_name().map(|v| v.to_string_lossy()).unwrap_or_default()
returned_name(path) ==
    LET fn == file_name(path)
    IN  IF fn = None THEN <<>> ELSE fn[1]

NoCall ==
    [op |-> "none", name |-> <<>>, data |-> <<>>, default_extension |-> <<>>,
     gen |-> None, consulted |-> FALSE, meta |-> {}, ok |-> FALSE,
     err |-> "none", result |-> <<>>, type |-> "none", pre |-> <<>>]

store_file(requested, data, default_extension, gen) ==
    LET path   == resolved_path(requested, data, default_extension, gen)
        target == create_target(path)
    IN  /\ fs' = IF target = None THEN fs ELSE write_file(fs, target[1], data)
        /\ last' = [NoCall EXCEPT
              !.op = "store_file", !.name = requested, !.data = data,
              !.default_extension = default_extension, !.gen = gen,
              !.consulted = TRUE, !.pre = fs,
              !.ok = (target # None),
              !.err = IF target = None THEN "io" ELSE "none",
              !.result = IF target = None THEN <<>> ELSE returned_name(path)]
        /\ calls' = calls + 1

-----------------------------------------------------------------------------
(* Paste::store_url                                                        *)


\* A store_url that stores what it cannot parse as it came.
url_to_store_unparsed(data) ==
    IF ~utf8_valid(data) THEN None
    ELSE LET url == url_parse(from_utf8(data))
         IN  IF url = None THEN Some(data) ELSE Some(as_bytes(url[1]))

\* A store_url that writes the raw input of a URL that parses.
url_to_store_raw(data) ==
    IF ~utf8_valid(data) THEN None
    ELSE IF url_parse(from_utf8(data)) = None THEN None ELSE Some(data)

\* The bytes store_url writes, or None when the data is rejected.
url_to_store(data) ==
    IF ~utf8_valid(data) THEN None
    ELSE LET url == url_parse(from_utf8(data))
         IN  IF url = None THEN None ELSE Some(as_bytes(url[1]))

url_file_name(gen) == IF gen # None THEN gen[1] ELSE URL

url_path(name) == join(join(upload_path, URL), name)

store_url(data, gen) ==
    LET url    == url_to_store(data)
        name   == url_file_name(gen)
        target == create_target(url_path(name))
        wrote  == url # None /\ target # None
    IN  /\ fs' = IF wrote THEN write_file(fs, target[1], url[1]) ELSE fs
        /\ last' = [NoCall EXCEPT
              !.op = "store_url", !.data = data, !.pre = fs,
              !.gen = IF url = None THEN None ELSE gen,
              !.consulted = (url # None),
              !.ok = wrote,
              !.err = IF url = None THEN "validation"
                      ELSE IF target = None THEN "io" ELSE "none",
              !.result = IF wrote THEN name ELSE <<>>]
        /\ calls' = calls + 1

-----------------------------------------------------------------------------
(* The classifier, as a request step.                                      *)

classify(content_disposition) ==
    /\ last' = [NoCall EXCEPT
          !.op = "classify", !.meta = content_disposition, !.pre = fs,
          !.type = try_from(content_disposition),
          !.ok = (try_from(content_disposition) # "Err"),
          !.err = IF try_from(content_disposition) = "Err"
                  THEN "classification" ELSE "none"]
    /\ calls' = calls + 1
    /\ UNCHANGED fs

-----------------------------------------------------------------------------
(* Spec: one request, with every input of the bounded sets, against an     *)
(* empty upload directory.                                                 *)

Init ==
    /\ fs = <<>>
    /\ last = NoCall
    /\ calls = 0

StoreFile ==
    /\ calls = 0
    /\ \E n \in Names, d \in FileData, e \in DefaultExtensions, g \in GenOutcomes :
          store_file(n, d, e, g)

StoreUrl ==
    /\ calls = 0
    /\ \E d \in UrlData, g \in GenOutcomes : store_url(d, g)

Classify ==
    /\ calls = 0
    /\ \E m \in SUBSET FormFields : classify(m)

Next == StoreFile \/ StoreUrl \/ Classify

Spec == Init /\ [][Next]_vars

-----------------------------------------------------------------------------
(* SpecSeq: up to MaxCalls requests in sequence over a few inputs, so that *)
(* requests meet the files that earlier requests left.                     *)

SeqNames == {<<"a", ".", "a">>, <<"a">>, <<"-">>}
SeqGens == {None, Some(<<"x">>), Some(<<>>)}
\* "w:", "W:", and the rejected "w.w", "ws:" (no host), "w://w:w" (bad port)
\* and 0xFF (not text).
SeqUrls ==
    { <<119, 58>>, <<87, 58>>, <<119, 46, 119>>, <<119, 115, 58>>,
      <<119, 58, 47, 47, 119, 58, 119>>, <<255>> }

SeqStoreFile ==
    /\ calls < MaxCalls
    /\ \E n \in SeqNames, d \in FileData, g \in SeqGens : store_file(n, d, BIN, g)

SeqStoreUrl ==
    /\ calls < MaxCalls
    /\ \E d \in SeqUrls, g \in SeqGens : store_url(d, g)

SeqClassify ==
    /\ calls < MaxCalls
    /\ \E m \in SUBSET FormFields : classify(m)

NextSeq == SeqStoreFile \/ SeqStoreUrl \/ SeqClassify

SpecSeq == Init /\ [][NextSeq]_vars

-----------------------------------------------------------------------------
(* Vocabulary of the properties.                                           *)

FileCall == last.op = "store_file"
FileStored == FileCall /\ last.ok
UrlCall == last.op = "store_url"
UrlStored == UrlCall /\ last.ok

\* The last piece of a requested name that is neither empty nor ".".
NamedPieces(n) == SelectSeq(Pieces(n), LAMBDA p : p # <<>> /\ p # DOT)

\* The extension a requested name carries: the text after the last dot of
\* its last piece, when that dot is not the piece's first character and
\* the piece is not "..".
NameExt(n) ==
    LET ps == NamedPieces(n)
    IN  IF ps = <<>> THEN None
        ELSE LET b == ps[Len(ps)]
                 i == LastIndexOf(b, ".")
             IN  IF b = DOTDOT \/ i < 2 THEN None
                 ELSE Some(SubSeq(b, i + 1, Len(b)))

\* "." + x, or nothing for the empty extension.
Suffix(x) == IF x = <<>> THEN <<>> ELSE DOT \o x

\* The extension the extensionless branch chooses for the last call.
ChosenExt ==
    IF infer_get(last.data) # None THEN infer_get(last.data)[1]
    ELSE last.default_extension

\* The file a name denotes inside a directory path, when there is one.
FileAt(dir, name) ==
    LET t == create_target(join(dir, name))
    IN  IF t # None /\ t[1] \in DOMAIN fs THEN Some(fs[t[1]]) ELSE None

\* A generator outcome that is none or a name of letters only.
PlainGen(gen) ==
    gen = None \/ (gen[1] # <<>> /\ \A i \in 1..Len(gen[1]) : gen[1][i] = "x")

\* A generator name that is one normal path component.
ComponentGen(gen) ==
    /\ gen # None
    /\ gen[1] \notin {<<>>, DOT, DOTDOT}
    /\ ~Contains(gen[1], "/")

\* The extension of a name, the empty string when it has none.
ExtOrEmpty(name) ==
    IF extension(name) = None THEN <<>> ELSE extension(name)[1]

\* The bytes hold "://" after at least one byte: a scheme and an authority.
HasSchemeAndAuthority(data) ==
    \E i \in 2..(Len(data) - 2) :
        data[i] = 58 /\ data[i + 1] = 47 /\ data[i + 2] = 47

\* name has base b: it is b, or b followed by "." and more.
HasBase(name, b) ==
    \/ name = b
    \/ Len(name) > Len(b) /\ SubSeq(name, 1, Len(b) + 1) = b \o DOT

-----------------------------------------------------------------------------
(* C1.  Every successful store_file returns a file name that is neither    *)
(* empty nor "-", whatever the requested name, the data, the default       *)
(* extension and the generator's outcome.                                  *)
C1_NameNeverEmptyNorDash ==
    FileStored => last.result # <<>> /\ last.result # DASH

C3_GeneratedNameKeepsExtension ==
    FileStored /\ ComponentGen(last.gen) /\ NameExt(last.name) # None
               /\ NameExt(last.name) # Some(<<>>)
        => last.result = last.gen[1] \o DOT \o NameExt(last.name)[1]

C5_NameKeptWithoutGenerator ==
    FileCall /\ last.gen = None /\ NameExt(last.name) # None
        => /\ last.ok
           /\ last.result = NamedPieces(last.name)[Len(NamedPieces(last.name))]
           /\ extension(last.result) = NameExt(last.name)
           /\ FileAt(upload_path, last.result) = Some(last.data)

C5_Witness ==
    /\ FileStored /\ last.gen = None /\ NameExt(last.name) # None
    /\ Contains(last.name, "/") /\ last.result # last.name

(* C6.  Whenever store_file succeeds and returns r, the file at            *)
(* upload_root/r holds exactly the paste data, also when a file of that    *)
(* name existed before.                                                    *)
C6_RoundTrip ==
    FileStored => FileAt(upload_path, last.result) = Some(last.data)

(* C7.  store_url fails with a validation error whenever the data is not   *)
(* valid text or carries no scheme and authority ("scheme://"); it then    *)
(* returns no name, does not consult the generator and changes no file.    *)
C7_RejectedWithoutAuthority ==
    UrlCall /\ (~utf8_valid(last.data) \/ ~HasSchemeAndAuthority(last.data))
        => /\ ~last.ok /\ last.err = "validation" /\ last.result = <<>>
           /\ ~last.consulted /\ fs = last.pre

(* C7, amended.  store_url fails with a validation error whenever the data *)
(* is not valid text or does not parse as a URL (a scheme is required, as  *)
(* "testurl.com" shows; an authority is not); it then returns no name,     *)
(* does not consult the generator and changes no file.                     *)
C7_RejectedWhenInvalid ==
    UrlCall /\ (\/ ~utf8_valid(last.data)
                \/ ~Contains(last.data, 58)
                \/ url_parse(from_utf8(last.data)) = None)
        => /\ ~last.ok /\ last.err = "validation" /\ last.result = <<>>
           /\ ~last.consulted /\ fs = last.pre

C7_Witness ==
    /\ UrlCall /\ last.data = <<119, 46, 119>>
    /\ last.err = "validation" /\ ~last.consulted
    /\ fs = last.pre /\ DOMAIN fs # {}

(* C8.  Whenever store_url succeeds, the returned name is the generator's  *)
(* name if it produced one and "url" otherwise, and the file               *)
(* upload_root/url/<returned name> holds exactly the canonical URL, which  *)
(* for an already canonical input such as "ws://w/" is the input.          *)
C8_UrlStoredCanonical ==
    UrlStored
        => /\ last.result = (IF last.gen # None THEN last.gen[1] ELSE URL)
           /\ FileAt(join(upload_path, URL), last.result)
                = Some(as_bytes(url_parse(from_utf8(last.data))[1]))
           /\ last.data = <<119, 115, 58, 47, 47, 119, 47>>
                => FileAt(join(upload_path, URL), last.result) = Some(last.data)

C8_Witness ==
    /\ UrlStored /\ last.gen = Some(<<"x">>)
    /\ last.data = <<119, 115, 58, 47, 47, 87>>
    /\ FileAt(join(upload_path, URL), <<"x">>)
         = Some(<<119, 115, 58, 47, 47, 119, 47>>)

(* C9.  classify returns File whenever a "file" field is present (also     *)
(* next to a "url" field), Url for a "url" field without a "file" field,   *)
(* and fails, changing nothing, when neither is present.                   *)
C9_Classify ==
    last.op = "classify"
        => /\ "file" \in last.meta => last.type = "File"
           /\ "file" \notin last.meta /\ "url" \in last.meta => last.type = "Url"
           /\ "file" \notin last.meta /\ "url" \notin last.meta
                => last.type = "Err" /\ last.err = "classification" /\ fs = last.pre

C9_Witness ==
    /\ last.op = "classify" /\ {"file", "url"} \subseteq last.meta
    /\ last.type = "File"

(* C10.  For every requested name and every generator name without a path *)
(* separator, the only file store_file creates or changes is one direct    *)
(* child of the upload directory.                                          *)
C10_OnlyAChildOfUploadRoot ==
    FileCall /\ (last.gen = None \/ ~Contains(last.gen[1], "/"))
        => /\ Cardinality(Changed(last.pre, fs)) <= 1
           /\ \A q \in Changed(last.pre, fs) : Len(q) = 2 /\ q[1] = upload_path

====
